---------------------------- MODULE Spec2Model ----------------------------
(***************************************************************************)
(* A model of ktxreader::Ktx2Reader (libs/ktxreader/src/Ktx2Reader.cpp):   *)
(* the two format tables, the Requested-Format List with requestFormat and *)
(* unrequestFormat, and load, step by step, together with the heap of      *)
(* Decoded Level Buffers and the consumer that releases them.              *)
(***************************************************************************)
EXTENDS Integers, Sequences, FiniteSets, TLC

(***************************************************************************)
(* Bounds of the model.                                                    *)
(***************************************************************************)
\* Longest Requested-Format List explored by Spec.
MaxList == 3
\* Longest Requested-Format List explored by RegSpec (all formats).
MaxRegList == 2
\* Largest number of mip levels a container reports.
MaxLevels == 2
\* Number of heap slots available to malloc.
MaxBufs == 2

(***************************************************************************)
(* Enumerants.                                                             *)
(***************************************************************************)
\* Ktx2Reader::Transform
sRGB == "sRGB"
LINEAR == "LINEAR"
Transforms == {sRGB, LINEAR}

\* Texture::InternalFormat: the fourteen formats the tables know, and two
\* that they do not.
CompressedFormats ==
    {"ETC2_EAC_SRGBA8", "ETC2_EAC_RGBA8", "DXT1_SRGB", "DXT1_RGB",
     "DXT3_SRGBA", "DXT3_RGBA", "SRGB8_ALPHA8_ASTC_4x4", "RGBA_ASTC_4x4",
     "EAC_R11", "EAC_RG11"}
UncompressedFormats == {"SRGB8_A8", "RGBA8", "RGB565", "RGBA4"}
OtherFormats == {"R8", "DXT5_RGBA"}
AllFormats == CompressedFormats \cup UncompressedFormats \cup OtherFormats

\* The formats the calls of Spec draw from: an sRGB/linear pair that shares
\* one codec format, a linear format with a codec format of its own, an
\* uncompressed format, and a format the tables do not know.
ModelFormats == {"ETC2_EAC_SRGBA8", "ETC2_EAC_RGBA8", "DXT1_RGB", "RGBA8", "R8"}

\* Texture::CompressedType has the same enumerant names as the compressed
\* internal formats. What a read of an uninitialized CompressedType gives:
\* a bit pattern that names an enumerant, or one that names none.
CompressedTypes == CompressedFormats
INDETERMINATE == "INDETERMINATE"
UninitializedTypes == {"ETC2_EAC_RGBA8", INDETERMINATE}
NoFormat == "NONE"

(***************************************************************************)
(* getFinalFormatInfo                                                      *)
(***************************************************************************)
FinalFormatInfo(c, t, b, ct, pt, pf) ==
    [isSupported |-> TRUE, isCompressed |-> c, transformFunction |-> t,
     basisFormat |-> b, compressedPixelDataType |-> ct,
     pixelDataType |-> pt, pixelDataFormat |-> pf]

getFinalFormatInfo(fmt) ==
    CASE fmt = "ETC2_EAC_SRGBA8" -> FinalFormatInfo(TRUE, sRGB, "cTFETC2_RGBA", "ETC2_EAC_RGBA8", "", "")
      [] fmt = "ETC2_EAC_RGBA8" -> FinalFormatInfo(TRUE, LINEAR, "cTFETC2_RGBA", "ETC2_EAC_SRGBA8", "", "")
      [] fmt = "DXT1_SRGB" -> FinalFormatInfo(TRUE, sRGB, "cTFBC1_RGB", "DXT1_RGB", "", "")
      [] fmt = "DXT1_RGB" -> FinalFormatInfo(TRUE, LINEAR, "cTFBC1_RGB", "DXT1_SRGB", "", "")
      [] fmt = "DXT3_SRGBA" -> FinalFormatInfo(TRUE, sRGB, "cTFBC3_RGBA", "DXT3_RGBA", "", "")
      [] fmt = "DXT3_RGBA" -> FinalFormatInfo(TRUE, LINEAR, "cTFBC3_RGBA", "DXT3_SRGBA", "", "")
      [] fmt = "SRGB8_ALPHA8_ASTC_4x4" -> FinalFormatInfo(TRUE, sRGB, "cTFASTC_4x4_RGBA", "RGBA_ASTC_4x4", "", "")
      [] fmt = "RGBA_ASTC_4x4" -> FinalFormatInfo(TRUE, LINEAR, "cTFASTC_4x4_RGBA", "SRGB8_ALPHA8_ASTC_4x4", "", "")
      [] fmt = "EAC_R11" -> FinalFormatInfo(TRUE, LINEAR, "cTFETC2_EAC_R11", "EAC_R11", "", "")
      [] fmt = "EAC_RG11" -> FinalFormatInfo(TRUE, LINEAR, "cTFETC2_EAC_RG11", "EAC_RG11", "", "")
      [] fmt = "SRGB8_A8" -> FinalFormatInfo(FALSE, sRGB, "cTFRGBA32", "", "UBYTE", "RGBA")
      [] fmt = "RGBA8" -> FinalFormatInfo(FALSE, LINEAR, "cTFRGBA32", "", "UBYTE", "RGBA")
      [] fmt = "RGB565" -> FinalFormatInfo(FALSE, LINEAR, "cTFRGB565", "", "USHORT_565", "RGB")
      [] fmt = "RGBA4" -> FinalFormatInfo(FALSE, LINEAR, "cTFRGBA4444", "", "USHORT", "RGBA")
      [] OTHER -> [isSupported |-> FALSE, isCompressed |-> FALSE, transformFunction |-> "",
                   basisFormat |-> "", compressedPixelDataType |-> "",
                   pixelDataType |-> "", pixelDataFormat |-> ""]

(***************************************************************************)
(* convertFormat: the return value, *pTransform and *dest.                 *)
(***************************************************************************)
Converted(t, d) == [ok |-> TRUE, transform |-> t, dest |-> d]

\* A format no case names: `return true` in place of `return false`.
UnconvertedAccepted == [ok |-> TRUE, transform |-> LINEAR, dest |-> ""]

\* default: break; return false. Neither *pTransform nor *dest is written.
Unconverted == [ok |-> FALSE, transform |-> "", dest |-> ""]

convertFormat(fmt) ==
    CASE fmt = "ETC2_EAC_SRGBA8" -> Converted(sRGB, "cTFETC2_RGBA")
      [] fmt = "ETC2_EAC_RGBA8" -> Converted(LINEAR, "cTFETC2_RGBA")
      [] fmt = "DXT1_SRGB" -> Converted(sRGB, "cTFBC1_RGB")
      [] fmt = "DXT1_RGB" -> Converted(LINEAR, "cTFBC1_RGB")
      [] fmt = "DXT3_SRGBA" -> Converted(sRGB, "cTFBC3_RGBA")
      [] fmt = "DXT3_RGBA" -> Converted(LINEAR, "cTFBC3_RGBA")
      [] fmt = "SRGB8_ALPHA8_ASTC_4x4" -> Converted(sRGB, "cTFASTC_4x4_RGBA")
      [] fmt = "RGBA_ASTC_4x4" -> Converted(LINEAR, "cTFASTC_4x4_RGBA")
      [] fmt = "EAC_R11" -> Converted(LINEAR, "cTFETC2_EAC_R11")
      [] fmt = "EAC_RG11" -> Converted(LINEAR, "cTFETC2_EAC_RG11")
      [] fmt = "SRGB8_A8" -> Converted(sRGB, "cTFRGBA32")
      [] fmt = "RGBA8" -> Converted(LINEAR, "cTFRGBA32")
      [] fmt = "RGB565" -> Converted(LINEAR, "cTFRGB565")
      [] fmt = "RGBA4" -> Converted(LINEAR, "cTFRGBA4444")
      [] OTHER -> Unconverted

(***************************************************************************)
(* State.                                                                  *)
(***************************************************************************)
VARIABLES
    mRequestedFormats,  \* the Requested-Format List, in priority order
    mQuiet,             \* the quiet flag given to the constructor
    ndebug,             \* whether the build compiles assert() away
    pc,                 \* "idle", the step load is about to run, or "aborted"
    transform,          \* load's transform argument
    container,          \* what the transcoder has reported: faces, layers, levels (-1: not asked)
    codecSupported,     \* codec formats for which basis_is_format_supported answered true
    deviceSupported,    \* formats for which Texture::isTextureFormatSupported answered true
    found,              \* load's local of that name
    resolvedFormat,     \* load's local of that name
    texture,            \* the texture load has built, and the images set on it
    cdatatype,          \* load's local of that name
    levelIndex,         \* the decode loop's counter
    infoFailedAt,       \* the first level whose get_image_level_info failed in the decode loop (-1: none)
    mallocs,            \* how many buffers load has allocated
    heap,               \* the malloc heap: per slot, "free" or "allocated"
    doubleFree,         \* whether free was called on a slot that was not allocated
    pending,            \* buffers handed to setImage whose release callback has not run
    ret,                \* what load returned: "none" (not yet), "nullptr" or "texture"
    log,                \* what load wrote to utils::slog.e
    steps,              \* the steps load has run
    lastOp,             \* the last call made on the reader: its argument, its return value,
                        \* the list before it, and whether it repeats the call before it
    other,              \* a reader set aside to be compared with this one: all it holds
    inputs,             \* the calls and the answers of codec and device kept for the comparison
    turn                \* "alone", or the part of the comparison that comes next

vars ==
    <<mRequestedFormats, mQuiet, ndebug, pc, transform, container, codecSupported,
      deviceSupported, found, resolvedFormat, texture, cdatatype, levelIndex, infoFailedAt,
      mallocs, heap, doubleFree, pending, ret, log, steps, lastOp, other, inputs, turn>>

\* What a comparison of two readers, or of two calls of load, keeps.
comparisonVars == <<other, inputs, turn>>

\* A reader and the call of load it is in or has last run, the heap and the
\* consumer of its buffers.
programVars ==
    <<mRequestedFormats, mQuiet, ndebug, pc, transform, container, codecSupported,
      deviceSupported, found, resolvedFormat, texture, cdatatype, levelIndex, infoFailedAt,
      mallocs, heap, doubleFree, pending, ret, log, steps, lastOp>>

readerVars == <<mRequestedFormats, mQuiet, ndebug, lastOp>>
heapVars == <<heap, doubleFree, pending>>
negotiationVars == <<codecSupported, deviceSupported, found, resolvedFormat>>
decodeVars == <<cdatatype, levelIndex, infoFailedAt, mallocs>>

\* The variables that hold one load call: its argument, what its collaborators
\* answered, its locals and its outcome.
loadVars ==
    <<transform, container, codecSupported, deviceSupported, found, resolvedFormat,
      texture, cdatatype, levelIndex, infoFailedAt, mallocs, ret, log, steps>>

Buffers == 1..MaxBufs
NoContainer == [faces |-> -1, layers |-> -1, levels |-> -1]
NoTexture == [built |-> FALSE, format |-> NoFormat, images |-> <<>>]
NoOp == [op |-> "none", fmt |-> NoFormat, ret |-> FALSE, pre |-> <<>>, rep |-> FALSE]
NoReader == [mQuiet |-> FALSE]

Range(s) == {s[i] : i \in 1..Len(s)}
Count(x, s) == Cardinality({i \in 1..Len(s) : s[i] = x})

\* load's locals with the loop counter of the call before left as it was.
NoLocalsButLevelIndex ==
    /\ container' = NoContainer
    /\ codecSupported' = {}
    /\ deviceSupported' = {}
    /\ found' = FALSE
    /\ resolvedFormat' = NoFormat
    /\ texture' = NoTexture
    /\ cdatatype' = NoFormat
    /\ UNCHANGED levelIndex
    /\ infoFailedAt' = -1
    /\ mallocs' = 0

\* load's locals and what its collaborators answered, before any step has run.
NoLocals ==
    /\ container' = NoContainer
    /\ codecSupported' = {}
    /\ deviceSupported' = {}
    /\ found' = FALSE
    /\ resolvedFormat' = NoFormat
    /\ texture' = NoTexture
    /\ cdatatype' = NoFormat
    /\ levelIndex' = 0
    /\ infoFailedAt' = -1
    /\ mallocs' = 0

\* Nothing of a load call is left: the state of these variables before the
\* first load, and again once another call is made on the reader.
NoLoad ==
    /\ transform' = LINEAR
    /\ NoLocals
    /\ ret' = "none"
    /\ log' = <<>>
    /\ steps' = <<>>

\* Ktx2Reader::Ktx2Reader: the list is empty (reserve allocates, it adds nothing).
Init ==
    /\ mRequestedFormats = <<>>
    /\ mQuiet \in BOOLEAN
    /\ ndebug \in BOOLEAN
    /\ pc = "idle"
    /\ transform = LINEAR
    /\ container = NoContainer
    /\ codecSupported = {}
    /\ deviceSupported = {}
    /\ found = FALSE
    /\ resolvedFormat = NoFormat
    /\ texture = NoTexture
    /\ cdatatype = NoFormat
    /\ levelIndex = 0
    /\ infoFailedAt = -1
    /\ mallocs = 0
    /\ heap = [b \in Buffers |-> "free"]
    /\ doubleFree = FALSE
    /\ pending = {}
    /\ ret = "none"
    /\ log = <<>>
    /\ steps = <<>>
    /\ lastOp = NoOp
    /\ other = NoReader
    /\ inputs = <<>>
    /\ turn = "alone"

(***************************************************************************)
(* requestFormat and unrequestFormat.                                      *)
(***************************************************************************)
\* requestFormat without the loop that looks for the format in the list.
requestFormatNoDuplicateCheck(list, format) ==
    IF ~convertFormat(format).ok
    THEN [ret |-> FALSE, list |-> list]
    ELSE [ret |-> TRUE, list |-> Append(list, format)]

\* requestFormat that does not look at what convertFormat returns.
requestFormatNoLookup(list, format) ==
    IF \E i \in 1..Len(list) : list[i] = format
    THEN [ret |-> FALSE, list |-> list]
    ELSE [ret |-> TRUE, list |-> Append(list, format)]

\* The return value of requestFormat and the list it leaves.
requestFormatResult(list, format) ==
    IF ~convertFormat(format).ok
    THEN [ret |-> FALSE, list |-> list]
    ELSE IF \E i \in 1..Len(list) : list[i] = format
         THEN [ret |-> FALSE, list |-> list]
         ELSE [ret |-> TRUE, list |-> Append(list, format)]

requestFormat(format) ==
    /\ pc = "idle"
    /\ LET r == requestFormatResult(mRequestedFormats, format)
       IN /\ mRequestedFormats' = r.list
          /\ lastOp' = [op |-> "requestFormat", fmt |-> format, ret |-> r.ret,
                        pre |-> mRequestedFormats,
                        rep |-> lastOp.op = "requestFormat" /\ lastOp.fmt = format /\ lastOp.ret]
    /\ NoLoad
    /\ UNCHANGED <<mQuiet, ndebug, pc, heapVars>>

\* vector::erase at position i.
erase(list, i) == SubSeq(list, 1, i - 1) \o SubSeq(list, i + 1, Len(list))

\* unrequestFormat with erase(iter, end) in place of erase(iter).
unrequestFormatEraseToEnd(list, format) ==
    IF \E i \in 1..Len(list) : list[i] = format
    THEN SubSeq(list, 1, (CHOOSE i \in 1..Len(list) :
                             /\ list[i] = format
                             /\ \A j \in 1..(i - 1) : list[j] # format) - 1)
    ELSE list

\* The list unrequestFormat leaves: the loop erases at the first match and returns.
unrequestFormatResult(list, format) ==
    IF \E i \in 1..Len(list) : list[i] = format
    THEN erase(list, CHOOSE i \in 1..Len(list) :
                         /\ list[i] = format
                         /\ \A j \in 1..(i - 1) : list[j] # format)
    ELSE list

unrequestFormat(format) ==
    /\ pc = "idle"
    /\ mRequestedFormats' = unrequestFormatResult(mRequestedFormats, format)
    /\ lastOp' = [op |-> "unrequestFormat", fmt |-> format, ret |-> FALSE,
                  pre |-> mRequestedFormats,
                  rep |-> lastOp.op = "unrequestFormat" /\ lastOp.fmt = format]
    /\ NoLoad
    /\ UNCHANGED <<mQuiet, ndebug, pc, heapVars>>

\* The calls of RegSpec: requestFormat and unrequestFormat over every format.
RegRequest ==
    \E f \in AllFormats :
        /\ requestFormatResult(mRequestedFormats, f).ret => Len(mRequestedFormats) < MaxRegList
        /\ requestFormat(f)
        /\ UNCHANGED comparisonVars

RegUnrequest == \E f \in AllFormats : unrequestFormat(f) /\ UNCHANGED comparisonVars

RegNext == RegRequest \/ RegUnrequest

RegSpec == Init /\ [][RegNext]_vars

(***************************************************************************)
(* load.                                                                   *)
(***************************************************************************)
\* The filters without the comparison of impliedTransform and transform.
PassesFiltersAnyTransform(requestedFormat, t, codec, device) ==
    LET conv == convertFormat(requestedFormat)
    IN /\ conv.ok
       /\ conv.dest \in codec
       /\ requestedFormat \in device

\* The filters without the call of Texture::isTextureFormatSupported.
PassesFiltersNoDevice(requestedFormat, t, codec, device) ==
    LET conv == convertFormat(requestedFormat)
    IN /\ conv.ok
       /\ conv.transform = t
       /\ conv.dest \in codec

\* The four filters of the negotiation loop, each a `continue`.
PassesFilters(requestedFormat, t, codec, device) ==
    LET conv == convertFormat(requestedFormat)
    IN /\ conv.ok
       /\ conv.transform = t
       /\ conv.dest \in codec
       /\ requestedFormat \in device

\* The negotiation loop without its `break`: the last element that passes wins.
RECURSIVE NegotiateNoBreak(_, _, _, _, _)
NegotiateNoBreak(list, i, t, codec, device) ==
    IF i > Len(list)
    THEN [found |-> FALSE, resolvedFormat |-> NoFormat]
    ELSE LET rest == NegotiateNoBreak(list, i + 1, t, codec, device)
         IN IF rest.found \/ ~PassesFilters(list[i], t, codec, device)
            THEN rest
            ELSE [found |-> TRUE, resolvedFormat |-> list[i]]

\* The negotiation loop from element i on: the first element that passes the
\* filters sets found and resolvedFormat and breaks. The inner loop over the
\* levels only calls get_image_level_info and `continue`s: it has no effect.
RECURSIVE Negotiate(_, _, _, _, _)
Negotiate(list, i, t, codec, device) ==
    IF i > Len(list)
    THEN [found |-> FALSE, resolvedFormat |-> NoFormat]
    ELSE IF PassesFilters(list[i], t, codec, device)
         THEN [found |-> TRUE, resolvedFormat |-> list[i]]
         ELSE Negotiate(list, i + 1, t, codec, device)

\* The switch over resolvedFormat: the value it gives cdatatype, and whether
\* it runs into assert(false).
CompressedTypeOf(fmt) ==
    CASE fmt = "ETC2_EAC_RGBA8" -> [asserts |-> FALSE, cdatatype |-> "ETC2_EAC_RGBA8"]
      [] fmt = "ETC2_EAC_SRGBA8" -> [asserts |-> FALSE, cdatatype |-> "ETC2_EAC_SRGBA8"]
      [] fmt = "DXT1_RGB" -> [asserts |-> FALSE, cdatatype |-> "DXT1_RGB"]
      [] fmt = "DXT1_SRGB" -> [asserts |-> FALSE, cdatatype |-> "DXT1_SRGB"]
      [] fmt = "DXT3_RGBA" -> [asserts |-> FALSE, cdatatype |-> "DXT3_RGBA"]
      [] fmt = "DXT3_SRGBA" -> [asserts |-> FALSE, cdatatype |-> "DXT3_SRGBA"]
      [] fmt = "RGBA_ASTC_4x4" -> [asserts |-> FALSE, cdatatype |-> "RGBA_ASTC_4x4"]
      [] fmt = "SRGB8_ALPHA8_ASTC_4x4" -> [asserts |-> FALSE, cdatatype |-> "SRGB8_ALPHA8_ASTC_4x4"]
      [] fmt = "EAC_R11" -> [asserts |-> FALSE, cdatatype |-> "EAC_R11"]
      [] fmt = "EAC_RG11" -> [asserts |-> FALSE, cdatatype |-> "EAC_RG11"]
      [] OTHER -> [asserts |-> TRUE, cdatatype |-> INDETERMINATE]

\* The message a failing step writes, unless the reader is quiet.
Report(msg) == IF mQuiet THEN <<>> ELSE <<msg>>

\* return nullptr
ReturnNull(step, msgs) ==
    /\ pc' = "idle"
    /\ ret' = "nullptr"
    /\ log' = log \o msgs
    /\ steps' = Append(steps, step)

\* The step passed: on to the next.
Pass(step, next) ==
    /\ pc' = next
    /\ steps' = Append(steps, step)
    /\ UNCHANGED <<ret, log>>

Allocated == {b \in Buffers : heap[b] = "allocated"}

\* load is called, and mTranscoder->init answers.
load(t, initOk) ==
    /\ pc = "idle"
    /\ transform' = t
    /\ NoLocals
    /\ lastOp' = [op |-> "load", fmt |-> NoFormat, ret |-> FALSE,
                  pre |-> mRequestedFormats, rep |-> FALSE]
    /\ steps' = <<"init">>
    /\ IF initOk
       THEN /\ pc' = "start_transcoding"
            /\ ret' = "none"
            /\ log' = <<>>
       ELSE /\ pc' = "idle"
            /\ ret' = "nullptr"
            /\ log' = Report("BasisU transcoder init failed.")
    /\ UNCHANGED <<mRequestedFormats, mQuiet, ndebug, heapVars>>

\* mTranscoder->start_transcoding answers.
StartTranscoding(ok) ==
    /\ pc = "start_transcoding"
    /\ IF ok
       THEN Pass("start_transcoding", "get_faces")
       ELSE ReturnNull("start_transcoding", Report("BasisU start_transcoding failed."))
    /\ UNCHANGED <<readerVars, heapVars, transform, container, negotiationVars, texture,
                   decodeVars>>

\* get_faces without the test for a cubemap.
GetFacesUnchecked(faces) ==
    /\ pc = "get_faces"
    /\ container' = [container EXCEPT !.faces = faces]
    /\ Pass("get_faces", "get_layers")
    /\ UNCHANGED <<readerVars, heapVars, transform, negotiationVars, texture, decodeVars>>

\* get_faces with the return inside the test of the quiet flag.
GetFacesReturnsUnlessQuiet(faces) ==
    /\ pc = "get_faces"
    /\ container' = [container EXCEPT !.faces = faces]
    /\ IF faces = 6 /\ ~mQuiet
       THEN ReturnNull("get_faces", <<"Cubemaps are not yet supported.">>)
       ELSE Pass("get_faces", "get_layers")
    /\ UNCHANGED <<readerVars, heapVars, transform, negotiationVars, texture, decodeVars>>

\* mTranscoder->get_faces() == 6
GetFaces(faces) ==
    /\ pc = "get_faces"
    /\ container' = [container EXCEPT !.faces = faces]
    /\ IF faces = 6
       THEN ReturnNull("get_faces", Report("Cubemaps are not yet supported."))
       ELSE Pass("get_faces", "get_layers")
    /\ UNCHANGED <<readerVars, heapVars, transform, negotiationVars, texture, decodeVars>>

\* mTranscoder->get_layers() > 1
GetLayers(layers) ==
    /\ pc = "get_layers"
    /\ container' = [container EXCEPT !.layers = layers]
    /\ IF layers > 1
       THEN ReturnNull("get_layers", Report("Texture arrays are not yet supported."))
       ELSE Pass("get_layers", "negotiate")
    /\ UNCHANGED <<readerVars, heapVars, transform, negotiationVars, texture, decodeVars>>

\* The first pass through the requested formats, erasing from the list the
\* elements it skips.
NegotiateFormatsErasesSkipped(codec, device) ==
    /\ pc = "negotiate"
    /\ codecSupported' = codec
    /\ deviceSupported' = device
    /\ mRequestedFormats' =
           SelectSeq(mRequestedFormats, LAMBDA f : PassesFilters(f, transform, codec, device))
    /\ LET n == Negotiate(mRequestedFormats, 1, transform, codec, device)
       IN /\ found' = n.found
          /\ resolvedFormat' = n.resolvedFormat
          /\ IF n.found
             THEN Pass("negotiate", "build")
             ELSE ReturnNull("negotiate",
                             Report("Unable to decode any of the requested formats."))
    /\ UNCHANGED <<mQuiet, ndebug, lastOp, heapVars, transform, container, texture, decodeVars>>

\* The first pass through the requested formats, against a codec and a device
\* that support the given formats.
NegotiateFormats(codec, device) ==
    /\ pc = "negotiate"
    /\ codecSupported' = codec
    /\ deviceSupported' = device
    /\ LET n == Negotiate(mRequestedFormats, 1, transform, codec, device)
       IN /\ found' = n.found
          /\ resolvedFormat' = n.resolvedFormat
          /\ IF n.found
             THEN Pass("negotiate", "build")
             ELSE ReturnNull("negotiate",
                             Report("Unable to decode any of the requested formats."))
    /\ UNCHANGED <<readerVars, heapVars, transform, container, texture, decodeVars>>

\* Texture::Builder()...levels(mTranscoder->get_levels())...build(mEngine)
BuildTexture(levels) ==
    /\ pc = "build"
    /\ container' = [container EXCEPT !.levels = levels]
    /\ texture' = [built |-> TRUE, format |-> resolvedFormat, images |-> <<>>]
    /\ Pass("build", "switch")
    /\ UNCHANGED <<readerVars, heapVars, transform, negotiationVars, decodeVars>>

\* codecSupported and deviceSupported hold what the codec and the device
\* answered to the negotiation loop. Nothing after the loop asks them again:
\* the answers are kept while the texture is built and dropped at the switch.
AnswersForgotten == codecSupported' = {} /\ deviceSupported' = {}

\* switch (resolvedFormat): a compressed format sets cdatatype.
SwitchCompressed ==
    /\ pc = "switch"
    /\ ~CompressedTypeOf(resolvedFormat).asserts
    /\ cdatatype' = CompressedTypeOf(resolvedFormat).cdatatype
    /\ Pass("switch", "decode")
    /\ AnswersForgotten
    /\ UNCHANGED <<readerVars, heapVars, transform, container, found, resolvedFormat, texture,
                   levelIndex, infoFailedAt, mallocs>>

\* switch (resolvedFormat): an uncompressed format reaches assert(false), which
\* ends the process.
SwitchAssert ==
    /\ pc = "switch"
    /\ CompressedTypeOf(resolvedFormat).asserts
    /\ ~ndebug
    /\ pc' = "aborted"
    /\ steps' = Append(steps, "switch")
    /\ AnswersForgotten
    /\ UNCHANGED <<readerVars, heapVars, transform, container, found, resolvedFormat, texture,
                   decodeVars, ret, log>>

\* switch (resolvedFormat): with assert compiled away the uncompressed case
\* falls through and cdatatype is never assigned: reading it gives any value.
SwitchUninitialized(garbage) ==
    /\ pc = "switch"
    /\ CompressedTypeOf(resolvedFormat).asserts
    /\ ndebug
    /\ cdatatype' = garbage
    /\ Pass("switch", "decode")
    /\ AnswersForgotten
    /\ UNCHANGED <<readerVars, heapVars, transform, container, found, resolvedFormat, texture,
                   levelIndex, infoFailedAt, mallocs>>

\* One buffer for all the levels: the slot of the last image given to
\* setImage, and a new slot only for the first level.
mallocOnce ==
    IF texture.images # <<>>
    THEN texture.images[Len(texture.images)].buffer
    ELSE CHOOSE b \in Buffers : heap[b] = "free" /\ \A c \in 1..(b - 1) : heap[c] # "free"

\* malloc: the lowest free slot.
malloc ==
    CHOOSE b \in Buffers : heap[b] = "free" /\ \A c \in 1..(b - 1) : heap[c] # "free"

\* setImage given 0 for the level, whatever the loop index.
setImageAtBaseLevel(images, level, type, buffer) ==
    Append(images, [level |-> 0, type |-> type, buffer |-> buffer])

\* texture->setImage(*mEngine, levelIndex, std::move(pbd)): the images the
\* texture has been given, each with its level, its compressed type and its buffer.
setImage(images, level, type, buffer) ==
    Append(images, [level |-> level, type |-> type, buffer |-> buffer])

\* The decode loop going on to the next level after a failed transcode.
DecodeLevelSkipsFailedLevel(infoFails, transcodeOk) ==
    /\ pc = "decode"
    /\ levelIndex < container.levels
    /\ \E b \in Buffers : heap[b] = "free"
    /\ LET blocks == malloc
       IN /\ heap' = [heap EXCEPT ![blocks] = "allocated"]
          /\ infoFailedAt' = IF infoFails /\ infoFailedAt = -1 THEN levelIndex ELSE infoFailedAt
          /\ mallocs' = mallocs + 1
          /\ levelIndex' = levelIndex + 1
          /\ IF transcodeOk
             THEN /\ texture' = [texture EXCEPT !.images =
                                    setImage(@, levelIndex, cdatatype, blocks)]
                  /\ pending' = pending \cup {blocks}
                  /\ UNCHANGED log
             ELSE /\ log' = log \o <<"Failed to transcode level">>
                  /\ UNCHANGED <<texture, pending>>
    /\ UNCHANGED <<readerVars, doubleFree, transform, container, negotiationVars, cdatatype,
                   pc, ret, steps>>

\* One iteration of the decode loop: get_image_level_info (its result is not
\* looked at), malloc, transcode_image_level, and then either the message and
\* return nullptr, or setImage with the buffer and the release callback.
DecodeLevel(infoFails, transcodeOk) ==
    /\ pc = "decode"
    /\ levelIndex < container.levels
    /\ \E b \in Buffers : heap[b] = "free"
    /\ LET blocks == malloc
       IN /\ heap' = [heap EXCEPT ![blocks] = "allocated"]
          /\ infoFailedAt' = IF infoFails /\ infoFailedAt = -1 THEN levelIndex ELSE infoFailedAt
          /\ mallocs' = mallocs + 1
          /\ IF transcodeOk
             THEN /\ texture' = [texture EXCEPT !.images =
                                    setImage(@, levelIndex, cdatatype, blocks)]
                  /\ pending' = pending \cup {blocks}
                  /\ levelIndex' = levelIndex + 1
                  /\ UNCHANGED <<pc, ret, log, steps>>
             ELSE /\ ReturnNull("decode", <<"Failed to transcode level">>)
                  /\ UNCHANGED <<texture, pending, levelIndex>>
    /\ UNCHANGED <<readerVars, doubleFree, transform, container, negotiationVars, cdatatype>>

\* return texture
ReturnTexture ==
    /\ pc = "decode"
    /\ levelIndex >= container.levels
    /\ pc' = "idle"
    /\ ret' = "texture"
    /\ steps' = Append(steps, "decode")
    /\ UNCHANGED <<readerVars, heapVars, transform, container, negotiationVars, texture,
                   decodeVars, log>>

(***************************************************************************)
(* The consumer of the pixel buffers.                                      *)
(***************************************************************************)
\* The upload of a buffer handed to setImage is done and the consumer runs
\* the descriptor's callback, once: cb calls free(buf).
Release(buf) ==
    /\ pc # "aborted"
    /\ buf \in pending
    /\ pending' = pending \ {buf}
    /\ heap' = [heap EXCEPT ![buf] = "free"]
    /\ doubleFree' = (doubleFree \/ heap[buf] # "allocated")
    /\ UNCHANGED <<readerVars, pc, loadVars>>

(***************************************************************************)
(* The specification.                                                      *)
(***************************************************************************)
\* The codec formats and the formats that the negotiation loop can ask about.
Asked == Range(mRequestedFormats)
AskedCodec == {convertFormat(f).dest : f \in Asked}

Request ==
    \E f \in ModelFormats :
        /\ requestFormatResult(mRequestedFormats, f).ret => Len(mRequestedFormats) < MaxList
        /\ requestFormat(f)
        /\ UNCHANGED comparisonVars

Unrequest == \E f \in ModelFormats : unrequestFormat(f) /\ UNCHANGED comparisonVars

\* A call of load starts when the heap has room for all the levels it may decode.
Load ==
    /\ Cardinality(Allocated) + MaxLevels <= MaxBufs
    /\ \E t \in Transforms, initOk \in BOOLEAN : load(t, initOk)
    /\ UNCHANGED comparisonVars

LoadStep ==
    \/ \E ok \in BOOLEAN : StartTranscoding(ok) /\ UNCHANGED comparisonVars
    \/ \E faces \in {1, 6} : GetFaces(faces) /\ UNCHANGED comparisonVars
    \/ \E layers \in 0..2 : GetLayers(layers) /\ UNCHANGED comparisonVars
    \/ \E codec \in SUBSET AskedCodec, device \in SUBSET Asked :
           NegotiateFormats(codec, device) /\ UNCHANGED comparisonVars
    \/ \E levels \in 1..MaxLevels : BuildTexture(levels) /\ UNCHANGED comparisonVars
    \/ SwitchCompressed /\ UNCHANGED comparisonVars
    \/ SwitchAssert /\ UNCHANGED comparisonVars
    \/ \E garbage \in UninitializedTypes : SwitchUninitialized(garbage) /\ UNCHANGED comparisonVars
    \/ \E infoFails \in BOOLEAN, transcodeOk \in BOOLEAN :
           DecodeLevel(infoFails, transcodeOk) /\ UNCHANGED comparisonVars
    \/ ReturnTexture /\ UNCHANGED comparisonVars

Consume == \E buf \in Buffers : Release(buf) /\ UNCHANGED comparisonVars

Next == Request \/ Unrequest \/ Load \/ LoadStep \/ Consume

Spec == Init /\ [][Next]_vars

(***************************************************************************)
(* Two readers that are given the same calls and the same answers.         *)
(***************************************************************************)
\* All that programVars hold, as one value.
Reader ==
    [mRequestedFormats |-> mRequestedFormats, mQuiet |-> mQuiet, ndebug |-> ndebug, pc |-> pc,
     transform |-> transform, container |-> container, codecSupported |-> codecSupported,
     deviceSupported |-> deviceSupported, found |-> found, resolvedFormat |-> resolvedFormat,
     texture |-> texture, cdatatype |-> cdatatype, levelIndex |-> levelIndex,
     infoFailedAt |-> infoFailedAt, mallocs |-> mallocs, heap |-> heap,
     doubleFree |-> doubleFree, pending |-> pending, ret |-> ret, log |-> log, steps |-> steps,
     lastOp |-> lastOp]

\* programVars take the values kept in r.
Becomes(r) ==
    /\ mRequestedFormats' = r.mRequestedFormats
    /\ mQuiet' = r.mQuiet
    /\ ndebug' = r.ndebug
    /\ pc' = r.pc
    /\ transform' = r.transform
    /\ container' = r.container
    /\ codecSupported' = r.codecSupported
    /\ deviceSupported' = r.deviceSupported
    /\ found' = r.found
    /\ resolvedFormat' = r.resolvedFormat
    /\ texture' = r.texture
    /\ cdatatype' = r.cdatatype
    /\ levelIndex' = r.levelIndex
    /\ infoFailedAt' = r.infoFailedAt
    /\ mallocs' = r.mallocs
    /\ heap' = r.heap
    /\ doubleFree' = r.doubleFree
    /\ pending' = r.pending
    /\ ret' = r.ret
    /\ log' = r.log
    /\ steps' = r.steps
    /\ lastOp' = r.lastOp

\* A call on the reader, a step of load with what codec and device answer to
\* it, or the end of an upload: which one, and its arguments or answers.
Input(act, ok, info, n, name, codec, device) ==
    [act |-> act, ok |-> ok, info |-> info, n |-> n, name |-> name,
     codec |-> codec, device |-> device]

\* The formats the compared readers are asked for: an sRGB and a linear
\* compressed format, an uncompressed format, and one convertFormat rejects.
ComparedFormats == {"ETC2_EAC_SRGBA8", "DXT1_RGB", "RGBA8", "R8"}

CallInputs ==
    {Input("requestFormat", FALSE, FALSE, 0, f, {}, {}) : f \in ComparedFormats}
    \cup {Input("unrequestFormat", FALSE, FALSE, 0, f, {}, {}) : f \in ComparedFormats}
    \cup {Input("load", ok, FALSE, 0, t, {}, {}) : ok \in BOOLEAN, t \in Transforms}

StepInputs ==
    {Input("start_transcoding", ok, FALSE, 0, "", {}, {}) : ok \in BOOLEAN}
    \cup {Input("get_faces", FALSE, FALSE, n, "", {}, {}) : n \in {1, 6}}
    \cup {Input("get_layers", FALSE, FALSE, n, "", {}, {}) : n \in 0..2}
    \cup {Input("negotiate", FALSE, FALSE, 0, "", codec, device) :
              codec \in SUBSET AskedCodec, device \in SUBSET Asked}
    \cup {Input("build", FALSE, FALSE, n, "", {}, {}) : n \in 1..MaxLevels}
    \cup {Input("switch", FALSE, FALSE, 0, "", {}, {})}
    \cup {Input("decode", ok, info, 0, "", {}, {}) : ok \in BOOLEAN, info \in BOOLEAN}
    \cup {Input("return", FALSE, FALSE, 0, "", {}, {})}

ConsumerInputs == {Input("release", FALSE, FALSE, b, "", {}, {}) : b \in Buffers}

\* The call, the step or the release that x stands for. What an unassigned
\* cdatatype reads as is no answer of codec or device: it is not part of x.
Call(x) ==
    \/ x.act = "requestFormat" /\ requestFormat(x.name)
    \/ x.act = "unrequestFormat" /\ unrequestFormat(x.name)
    \/ x.act = "load" /\ load(x.name, x.ok)
    \/ x.act = "start_transcoding" /\ StartTranscoding(x.ok)
    \/ x.act = "get_faces" /\ GetFaces(x.n)
    \/ x.act = "get_layers" /\ GetLayers(x.n)
    \/ x.act = "negotiate" /\ NegotiateFormats(x.codec, x.device)
    \/ x.act = "build" /\ BuildTexture(x.n)
    \/ x.act = "switch" /\ SwitchCompressed
    \/ x.act = "switch" /\ SwitchAssert
    \/ x.act = "switch" /\ \E garbage \in UninitializedTypes : SwitchUninitialized(garbage)
    \/ x.act = "decode" /\ DecodeLevel(x.info, x.ok)
    \/ x.act = "return" /\ ReturnTexture
    \/ x.act = "release" /\ Release(x.n)

\* The bounds of the model on a call: the length of the list, the room in the heap.
Bounded(x) ==
    /\ (x.act = "requestFormat" /\ requestFormatResult(mRequestedFormats, x.name).ret) =>
           Len(mRequestedFormats) < MaxRegList
    /\ x.act = "load" => Cardinality(Allocated) + MaxLevels <= MaxBufs

\* A second reader is constructed like the first, but for the quiet flag.
SecondReader ==
    /\ turn = "alone"
    /\ other' = [Reader EXCEPT !.mQuiet = ~mQuiet]
    /\ inputs' = <<>>
    /\ turn' = "lead"
    /\ UNCHANGED programVars

\* One reader is given a call, or its load runs a step, or one of its uploads ends.
Lead ==
    /\ turn = "lead"
    /\ \E x \in CallInputs \cup StepInputs \cup ConsumerInputs :
           /\ Bounded(x)
           /\ Call(x)
           /\ inputs' = <<x>>
    /\ turn' = "exchange"
    /\ UNCHANGED other

\* The reader that has led is set aside and the other one put in its place.
Exchange ==
    /\ turn = "exchange"
    /\ Becomes(other)
    /\ other' = Reader
    /\ turn' = "follow"
    /\ UNCHANGED inputs

\* The other reader is given the same call, or the same answers, or the same
\* upload of it ends.
Follow ==
    /\ turn = "follow"
    /\ Call(inputs[1])
    /\ inputs' = <<>>
    /\ turn' = "lead"
    /\ UNCHANGED other

TwinNext == SecondReader \/ Lead \/ Exchange \/ Follow

TwinSpec == Init /\ [][TwinNext]_vars

(***************************************************************************)
(* One reader that is given the same call of load again.                   *)
(***************************************************************************)
\* The list is set up before the first load and then left alone.
Prepare ==
    /\ turn = "alone"
    /\ \E x \in CallInputs :
           /\ x.act # "load"
           /\ Bounded(x)
           /\ Call(x)
    /\ UNCHANGED comparisonVars

\* The heap has room for one more buffer.
HeapHasRoom == Cardinality(Allocated) < MaxBufs

\* The first call of load: its arguments are kept.
FirstLoad ==
    /\ turn = "alone"
    /\ HeapHasRoom
    /\ \E x \in CallInputs :
           /\ x.act = "load"
           /\ Call(x)
           /\ inputs' = <<x>>
    /\ turn' = "first"
    /\ UNCHANGED other

\* A step of the first call: what codec and device answer to it is kept.
\* The device supports the formats asked, the codec any of them.
FirstStep ==
    /\ turn = "first"
    /\ \E x \in StepInputs :
           /\ x.act = "negotiate" => x.device = Asked
           /\ Call(x)
           /\ inputs' = Append(inputs, x)
    /\ UNCHANGED <<other, turn>>

\* How many answers the running call of load has been given, and one.
Position == Len(steps) + levelIndex + 1

\* load is called again with the arguments of the first call, once the
\* uploads of the call before have ended; the reader as the first call has
\* left it is kept.
LoadAgain ==
    /\ turn \in {"first", "again"}
    /\ pc = "idle"
    /\ pending = {}
    /\ HeapHasRoom
    /\ Call(inputs[1])
    /\ other' = IF turn = "first" THEN Reader ELSE other
    /\ turn' = "again"
    /\ UNCHANGED inputs

\* A step of a later call: codec and device answer what they have answered
\* to the first call.
StepAgain ==
    /\ turn = "again"
    /\ Position \in 2..Len(inputs)
    /\ Call(inputs[Position])
    /\ UNCHANGED comparisonVars

\* Uploads end between the calls of load.
ConsumeBetweenCalls == pc = "idle" /\ Consume

RepeatNext ==
    Prepare \/ FirstLoad \/ FirstStep \/ LoadAgain \/ StepAgain \/ ConsumeBetweenCalls

RepeatSpec == Init /\ [][RepeatNext]_vars

(***************************************************************************)
(* One reader and a consumer that ends every upload.                       *)
(***************************************************************************)
\* The consumer finishes every upload it was given: the callback of a buffer
\* handed to setImage is not put off forever.
ConsumerFinishes ==
    \A buf \in Buffers : WF_vars(Release(buf) /\ UNCHANGED comparisonVars)

FairNext == Prepare \/ Load \/ LoadStep \/ Consume

FairSpec == Init /\ [][FairNext]_vars /\ ConsumerFinishes

(***************************************************************************)
(* Properties.                                                             *)
(***************************************************************************)
\* The compatibility table knows the format.
Supported(f) == getFinalFormatInfo(f).isSupported

\* The format passes the four filters of the running load: the lookup
\* succeeds, the implied transform is the call's, the codec supports its codec
\* format and the device supports the format.
Viable(f) ==
    /\ convertFormat(f).ok
    /\ convertFormat(f).transform = transform
    /\ convertFormat(f).dest \in codecSupported
    /\ f \in deviceSupported

\* f is the first element of the list that is viable.
FirstViable(f) ==
    \E i \in 1..Len(mRequestedFormats) :
        /\ mRequestedFormats[i] = f
        /\ Viable(f)
        /\ \A j \in 1..(i - 1) : ~Viable(mRequestedFormats[j])

\* The negotiation loop was the last step load ran.
NegotiationEnded == Len(steps) > 0 /\ steps[Len(steps)] = "negotiate"

\* C1: once negotiation has succeeded the resolved format is the first element
\* of the list, in list order, that passes all four filters, and the texture
\* is built with that format.
C1_FirstViableIsResolved ==
    /\ pc \in {"build", "switch"} => found /\ FirstViable(resolvedFormat)
    /\ texture.built => found /\ texture.format = resolvedFormat

\* C1 happens: the first two elements of the list are both viable and the
\* texture is built with the first.
C1_Witness ==
    /\ pc = "switch"
    /\ texture.built
    /\ Len(mRequestedFormats) >= 2
    /\ Viable(mRequestedFormats[1])
    /\ Viable(mRequestedFormats[2])
    /\ texture.format = mRequestedFormats[1]

\* C2: the format a texture is built with has an implied transform equal to
\* the transform of the load call.
C2_TransformMatches ==
    texture.built =>
        /\ convertFormat(texture.format).ok
        /\ convertFormat(texture.format).transform = transform

\* C2 happens: the first element is supported by codec and device but implies
\* the other transform, and the texture is built with the second element.
C2_Witness ==
    /\ pc = "switch"
    /\ texture.built
    /\ Len(mRequestedFormats) >= 2
    /\ convertFormat(mRequestedFormats[1]).ok
    /\ convertFormat(mRequestedFormats[1]).transform # transform
    /\ convertFormat(mRequestedFormats[1]).dest \in codecSupported
    /\ mRequestedFormats[1] \in deviceSupported
    /\ texture.format = mRequestedFormats[2]

\* C3: requestFormat(f), for f known to the compatibility table and not in
\* the list, returns true; a second requestFormat(f) right after it returns
\* false; after either call the list holds f exactly once.
C3_RequestTwice ==
    (lastOp.op = "requestFormat" /\ Supported(lastOp.fmt)) =>
        /\ lastOp.fmt \notin Range(lastOp.pre) =>
               lastOp.ret /\ Count(lastOp.fmt, mRequestedFormats) = 1
        /\ lastOp.rep =>
               ~lastOp.ret /\ Count(lastOp.fmt, mRequestedFormats) = 1

\* C3 happens: the call before the last was requestFormat(f) and returned
\* true, the last was requestFormat(f) again and returned false.
C3_Witness ==
    /\ lastOp.op = "requestFormat"
    /\ lastOp.rep
    /\ ~lastOp.ret
    /\ Count(lastOp.fmt, mRequestedFormats) = 1

\* C4: requestFormat of a format the compatibility table does not know, or of
\* a format already in the list, returns false and leaves the list as it was.
C4_RejectedRequest ==
    (lastOp.op = "requestFormat"
        /\ (~Supported(lastOp.fmt) \/ lastOp.fmt \in Range(lastOp.pre))) =>
        ~lastOp.ret /\ mRequestedFormats = lastOp.pre

\* C4 happens: requestFormat of an unknown format on a list of two formats.
C4_Witness ==
    /\ lastOp.op = "requestFormat"
    /\ ~Supported(lastOp.fmt)
    /\ Len(lastOp.pre) = 2
    /\ ~lastOp.ret

\* C5: the list never holds a format twice, and holds only formats the
\* compatibility table knows.
C5_ListWellFormed ==
    /\ \A i, j \in 1..Len(mRequestedFormats) :
           i # j => mRequestedFormats[i] # mRequestedFormats[j]
    /\ \A i \in 1..Len(mRequestedFormats) : Supported(mRequestedFormats[i])

\* C5 happens: a load has returned a texture from a list of at least two formats.
C5_Witness ==
    /\ lastOp.op = "load"
    /\ ret = "texture"
    /\ Len(mRequestedFormats) >= 2

\* C6: unrequestFormat(f) leaves the list without f, every other element kept
\* in its order (the list itself when f was absent), and a second
\* unrequestFormat(f) right after the first changes nothing.
C6_Unrequest ==
    lastOp.op = "unrequestFormat" =>
        /\ mRequestedFormats = SelectSeq(lastOp.pre, LAMBDA x : x # lastOp.fmt)
        /\ lastOp.rep => mRequestedFormats = lastOp.pre

\* C6 happens: the middle element of a list of three was removed.
C6_Witness ==
    /\ lastOp.op = "unrequestFormat"
    /\ Len(lastOp.pre) = 3
    /\ lastOp.pre[2] = lastOp.fmt
    /\ mRequestedFormats = <<lastOp.pre[1], lastOp.pre[3]>>

\* C7: no buffer is freed twice, and when load has returned every buffer it
\* allocated is either freed or in the hands of the consumer that will free it.
C7_EveryBufferFreedOnce ==
    /\ ~doubleFree
    /\ pc = "idle" => \A b \in Allocated : b \in pending

\* C8: a load that has failed has built no texture and has uploaded no level.
C8_FailureLeavesNoTexture ==
    ret = "nullptr" => ~texture.built /\ texture.images = <<>>

\* C9: when no element of the list passes the negotiation filters, load
\* returns failure without having built a texture or allocated a buffer.
C9_NoCandidateFails ==
    (NegotiationEnded /\ \A i \in 1..Len(mRequestedFormats) : ~Viable(mRequestedFormats[i])) =>
        /\ pc = "idle"
        /\ ret = "nullptr"
        /\ ~found
        /\ ~texture.built
        /\ mallocs = 0

\* C9 happens: an element passes the lookup, the transform and the codec, the
\* device does not support it, and load has failed.
C9_Witness ==
    /\ NegotiationEnded
    /\ ret = "nullptr"
    /\ \E i \in 1..Len(mRequestedFormats) :
           /\ convertFormat(mRequestedFormats[i]).ok
           /\ convertFormat(mRequestedFormats[i]).transform = transform
           /\ convertFormat(mRequestedFormats[i]).dest \in codecSupported
           /\ mRequestedFormats[i] \notin deviceSupported

\* C10: a container of 6 faces or of more than 1 layer makes load fail
\* without negotiation, texture or buffer, whatever the list and the transform.
C10_LayoutRejected ==
    (container.faces = 6 \/ container.layers > 1) =>
        /\ pc = "idle"
        /\ ret = "nullptr"
        /\ "negotiate" \notin Range(steps)
        /\ ~texture.built
        /\ mallocs = 0

\* C10 happens: a cubemap is rejected although the list is not empty.
C10_Witness ==
    /\ container.faces = 6
    /\ ret = "nullptr"
    /\ Len(mRequestedFormats) >= 1

\* A load has returned the texture it built.
LoadSucceeded == lastOp.op = "load" /\ ret = "texture"

\* C11: a load that succeeds on a container of N levels has allocated N
\* buffers and has handed them to setImage one per level, in level order, each
\* with a callback that has not freed anything twice; and every one of these
\* buffers is in the end freed by its callback.
C11_OneBufferPerLevel ==
    /\ [](LoadSucceeded =>
            /\ mallocs = container.levels
            /\ Len(texture.images) = container.levels
            /\ \A i \in 1..Len(texture.images) : texture.images[i].level = i - 1
            /\ Allocated = pending
            /\ ~doubleFree)
    /\ (LoadSucceeded ~> (pending = {} /\ Allocated = {}))

\* C11 happens: a load of two levels has succeeded and both callbacks have run.
C11_Witness ==
    /\ LoadSucceeded
    /\ container.levels = 2
    /\ Len(texture.images) = 2
    /\ pending = {}
    /\ Allocated = {}

\* C12: once get_image_level_info has failed for a level in the decode loop,
\* load has returned failure at that level: no buffer was allocated for the
\* level, and the level was neither transcoded nor given to setImage.
C12_LevelInfoFailureStops ==
    infoFailedAt # -1 =>
        /\ pc = "idle"
        /\ ret = "nullptr"
        /\ mallocs <= infoFailedAt
        /\ \A i \in 1..Len(texture.images) : texture.images[i].level < infoFailedAt

\* C13: requestFormat accepts each of the four uncompressed formats, and a
\* load whose texture was built with one of them stops at the switch: it
\* allocates no buffer, gives no image to setImage and returns no texture.
C13_UncompressedStops ==
    /\ \A f \in UncompressedFormats : requestFormatResult(<<>>, f).ret
    /\ (texture.built /\ texture.format \in UncompressedFormats) =>
           /\ pc \in {"switch", "aborted"}
           /\ mallocs = 0
           /\ texture.images = <<>>
           /\ ret # "texture"

\* C14: a quiet reader writes no message, whatever step of load fails.
C14_QuietWritesNothing ==
    mQuiet => log = <<>>

\* The slot of the buffer the step has written and given to setImage.
Uploaded == texture.images'[Len(texture.images')].buffer

\* C17: the buffer a step of load transcodes into is not one the consumer
\* still holds; no step but the callback frees a buffer, and the callback frees
\* a buffer the consumer holds; a buffer the consumer holds is never free, and
\* no buffer is freed twice.
C17_OnlyTheCallbackFrees ==
    /\ [][/\ Len(texture.images') > Len(texture.images) =>
               Uploaded \notin pending /\ heap[Uploaded] = "free"
          /\ \A b \in Buffers :
                 (heap[b] = "allocated" /\ heap'[b] = "free") =>
                     /\ b \in pending
                     /\ b \notin pending'
                     /\ UNCHANGED <<pc, loadVars>>]_vars
    /\ [](\A b \in pending : heap[b] = "allocated")
    /\ []~doubleFree

\* C17 happens: load is decoding the second level after the callback of the
\* first level has run and freed its buffer.
C17_Witness ==
    /\ pc = "decode"
    /\ levelIndex = 1
    /\ Len(texture.images) = 1
    /\ pending = {}
    /\ Allocated = {}

\* The transcode of a level has failed in the running or the last load.
TranscodeFailed == lastOp.op = "load" /\ "Failed to transcode level" \in Range(log)

\* C18: the images given to setImage are those of levels 0, 1, ... in this
\* order, each after a transcode of its own; once the transcode of level N has
\* failed load has returned failure with exactly the levels below N given to
\* setImage and nothing transcoded above N; and the buffers of the levels
\* below N are in the end all released by their callbacks.
C18_LevelsInOrder ==
    /\ [](/\ \A i \in 1..Len(texture.images) : texture.images[i].level = i - 1
          /\ Len(texture.images) <= mallocs
          /\ pending \subseteq Allocated)
    /\ [](TranscodeFailed =>
            /\ pc = "idle"
            /\ ret = "nullptr"
            /\ Len(texture.images) = levelIndex
            /\ mallocs = levelIndex + 1)
    /\ (TranscodeFailed ~> pending = {})

\* C18 happens: level 0 was given to setImage, the transcode of level 1 has
\* failed, and the callback of level 0 has run.
C18_Witness ==
    /\ TranscodeFailed
    /\ levelIndex = 1
    /\ Len(texture.images) = 1
    /\ texture.images[1].level = 0
    /\ pending = {}

\* The table and convertFormat say the same of the format: whether it is
\* supported and, if so, its transform and its codec format.
TableAgrees(f) ==
    /\ getFinalFormatInfo(f).isSupported = convertFormat(f).ok
    /\ convertFormat(f).ok =>
           /\ getFinalFormatInfo(f).transformFunction = convertFormat(f).transform
           /\ getFinalFormatInfo(f).basisFormat = convertFormat(f).dest

\* C19: the table and convertFormat agree on every format given to
\* requestFormat and on every element of the list; and for a texture of a
\* compressed format the compressed type in the table is the format's own
\* and is the type load has attached to every image of the texture.
C19_TableAgreesWithLoad ==
    /\ lastOp.op = "requestFormat" => TableAgrees(lastOp.fmt)
    /\ \A i \in 1..Len(mRequestedFormats) : TableAgrees(mRequestedFormats[i])
    /\ \A i \in 1..Len(texture.images) :
           texture.format \in CompressedFormats =>
               /\ getFinalFormatInfo(texture.format).compressedPixelDataType = texture.format
               /\ getFinalFormatInfo(texture.format).compressedPixelDataType =
                      texture.images[i].type

\* C20: while load runs and after it has returned, at whatever step, the
\* list is the list load was called with.
C20_LoadKeepsList ==
    lastOp.op = "load" => mRequestedFormats = lastOp.pre

\* C20 happens: load has gone through a list of two formats, has skipped
\* both and has failed.
C20_Witness ==
    /\ lastOp.op = "load"
    /\ NegotiationEnded
    /\ ret = "nullptr"
    /\ Len(lastOp.pre) = 2
    /\ mRequestedFormats = lastOp.pre

\* What a reader shows apart from its quiet flag and its log: the list, the
\* return values, the step load is at, the texture and its images, the
\* buffers. An unassigned cdatatype shows nothing.
Shown(r) ==
    [r EXCEPT !.mQuiet = FALSE,
              !.log = <<>>,
              !.cdatatype = IF CompressedTypeOf(r.resolvedFormat).asserts THEN INDETERMINATE ELSE @,
              !.texture.images =
                  IF CompressedTypeOf(r.resolvedFormat).asserts
                  THEN [i \in 1..Len(@) |-> [@[i] EXCEPT !.type = INDETERMINATE]]
                  ELSE @]

\* C15: of two readers that differ in the quiet flag alone and have been
\* given the same calls, the same answers of codec and device and the same
\* ends of uploads, either can take whatever call or step the other has
\* taken, and after it they show the same: only the logs may differ.
C15_QuietChangesOnlyLog ==
    /\ turn = "lead" => Shown(Reader) = Shown(other)
    /\ turn = "follow" => ENABLED Follow

\* C15 happens: the two readers have gone through the same failing load and
\* only the one that is not quiet has written a message.
C15_Witness ==
    /\ turn = "lead"
    /\ mQuiet # other.mQuiet
    /\ ret = "nullptr"
    /\ other.ret = "nullptr"
    /\ NegotiationEnded
    /\ log # other.log

\* What a call of load comes to: what it returns, the steps it has run, what
\* the transcoder has told it, the format it has resolved, the texture it has
\* built and the levels it has given to setImage, the buffers it has
\* allocated, what it has written.
Outcome(r) ==
    [ret |-> r.ret, steps |-> r.steps, container |-> r.container, found |-> r.found,
     resolvedFormat |-> r.resolvedFormat, built |-> r.texture.built,
     format |-> r.texture.format,
     levels |-> [i \in 1..Len(r.texture.images) |-> r.texture.images[i].level],
     mallocs |-> r.mallocs, log |-> r.log, list |-> r.mRequestedFormats]

\* The step that the running call of load is at.
AtStep == IF pc = "decode" /\ levelIndex >= container.levels THEN "return" ELSE pc

=============================================================================
